---- MODULE Spec2Model ----
(***************************************************************************)
(* fioconfig: the device agent that fetches an encrypted bundle of secrets *)
(* with a conditional GET, materializes every entry as a file of the       *)
(* secrets directory (updateSecret / safeWrite / extract) and persists the *)
(* accepted bundle with the server's Date as its modification time         *)
(* (checkin).  One synchronization cycle is modelled system call by system *)
(* call; the process may be killed between any two of them.                *)
(*                                                                         *)
(* Times are whole seconds.  A file's modification time is tracked only    *)
(* for the files of the configuration directory: it is the only time the   *)
(* program ever reads.  ioutil.ReadFile fails only for a missing file, and  *)
(* the deferred os.Remove of a temporary file that is there succeeds.      *)
(***************************************************************************)
EXTENDS Integers, Sequences, FiniteSets, TLC

VARIABLES
    fs,        \* the file system: path -> [data, mtime], for the paths that exist
    pc,        \* where the agent is in its cycle
    req,       \* the request of the cycle: its If-Modified-Since header
    res,       \* the response of the cycle
    config,    \* checkin's configSnapshot (prev, next)
    todo,      \* keys the running range loop has not visited yet
    seen,      \* extract's all_fname
    cur,       \* the loop variable fname
    sw,        \* the running safeWrite call: secretFile, newContent, its caller, its error
    ret,       \* what checkin returned
    cycles,    \* cycles started so far
    \* history variables: they record what happened and decide nothing
    fs0,       \* the file system when the cycle started
    hooks,     \* the change-hooks run in this cycle, in order
    touched,   \* the paths this cycle's system calls created, wrote, renamed or removed
    lw,        \* the latest safeWrite call: its target, the target before it, its content
    extractOk, \* extract has returned nil in this cycle
    rmRuns,    \* per name: removal hooks run since the file was last put in place
    accepted,  \* the response whose body was last renamed onto the bundle file
    applied,   \* the body of the last cycle that returned nil, while nothing ran since
    reapply,   \* this cycle applies the body that `applied` holds
    lost,      \* the header sent by the previous cycle, if it got a 200 and ended
               \* before it began to persist the bundle
    \* the process around the cycle: NewApp, CheckIn, Extract, CallInitFunctions
    sota,          \* the settings of sota.toml
    op,            \* the operation of App that is running
    apc,           \* where that operation is
    open,          \* hardware sessions opened by crypto11.Configure and not closed
    initFunctions, \* the registry of init functions: the names still registered
    pending,       \* names the range loop of callInitFunctions has not visited yet
    \* history variables of the process
    reg0,          \* the registry when the running callInitFunctions began
    calls,         \* per name: invocations by the running callInitFunctions
    succeeded,     \* the init functions that have returned nil so far
    again,         \* an init function was invoked after it had returned nil
    reached,       \* the constructor createClient has called in this operation
    lastId,        \* the latest idToBytes call: its argument and what came of it
    fetched,       \* checkin has been called in this operation
    \* the server
    offer          \* the bundle the server holds for good, if it has settled on one

cycleVars == <<fs, pc, req, res, config, todo, seen, cur, sw, ret, cycles,
               fs0, hooks, touched, lw, extractOk, rmRuns, accepted, applied, reapply,
               lost>>
appVars == <<sota, op, apc, open, initFunctions, pending,
             reg0, calls, succeeded, again, reached, lastId, fetched>>
vars == <<cycleVars, appVars, offer>>

(***************************************************************************)
(* Bounds of the model                                                     *)
(***************************************************************************)
MaxTime == 1     \* the local clock and the server's Date range over 0..MaxTime
MaxCycles == 2   \* cycles the external scheduler starts

Times == 0 .. MaxTime

(***************************************************************************)
(* Inputs: file names, secret values, change-hook commands, bundles        *)
(***************************************************************************)
\* "a.tmp" is a legal entry name; it is also the temporary path of entry "a".
Names == {"a", "a.tmp", "b"}
NameOrder == <<"a", "a.tmp", "b">>
Values == {<<1, 1>>, <<2, 2>>}
Absent == <<>>

\* The on-change command a bundle gives an entry: entry "a.tmp" has none.
OnChangedOf(n) == IF n = "a.tmp" THEN <<>> ELSE <<"/bin/reload", n>>

\* The bundle that gives "a", "a.tmp" and "b" these values (Absent: no such entry).
MkBundle(va, vt, vb) ==
    LET v == [n \in Names |-> IF n = "a" THEN va ELSE IF n = "a.tmp" THEN vt ELSE vb]
    IN  [n \in {m \in Names : v[m] # Absent} |-> v[n]]

\* The decrypted bundles the server holds over time: nothing; "a" and "b"; "a"
\* changed and "b" dropped; "a" beside "a.tmp"; "a" changed beside "a.tmp".
Bundles ==
    {MkBundle(Absent, Absent, Absent),
     MkBundle(<<1, 1>>, Absent, <<1, 1>>),
     MkBundle(<<2, 2>>, Absent, Absent),
     MkBundle(<<1, 1>>, <<1, 1>>, Absent),
     MkBundle(<<2, 2>>, <<1, 1>>, Absent)}

(***************************************************************************)
(* App: the paths NewApp fixes                                             *)
(***************************************************************************)
Join(dir, name) == dir \o "/" \o name
SecretsDir == "secrets"
SotaDir == "sota"
EncryptedConfig == Join(SotaDir, "config.encrypted")
SecretPath(n) == Join(SecretsDir, n)

\* Every path of the secrets directory the agent can name.
SecretPaths ==
    {SecretPath(n) : n \in Names} \cup {SecretPath(n) \o ".tmp" : n \in Names}

(***************************************************************************)
(* The file system                                                         *)
(***************************************************************************)
NoFile == [exists |-> FALSE, data |-> <<>>, mtime |-> 0]
Exists(d, p) == p \in DOMAIN d
Stat(d, p) ==
    IF Exists(d, p) THEN [exists |-> TRUE, data |-> d[p].data, mtime |-> d[p].mtime]
    ELSE NoFile
\* The time a write at local time t leaves on path p.
Stamp(p, t) == IF p \in {EncryptedConfig, EncryptedConfig \o ".tmp"} THEN t ELSE 0
FsPut(d, p, data, t) ==
    [q \in DOMAIN d \cup {p} |->
        IF q = p THEN [data |-> data, mtime |-> Stamp(p, t)] ELSE d[q]]
FsRemoveKeeps(d, p) == d
FsRemove(d, p) == [q \in DOMAIN d \ {p} |-> d[q]]
FsRename(d, from, to) ==
    IF from = to THEN d
    ELSE [q \in (DOMAIN d \cup {to}) \ {from} |-> IF q = to THEN d[from] ELSE d[q]]
FsChtimes(d, p, t) == [d EXCEPT ![p].mtime = t]
EmptyFs == [q \in {} |-> NoFile]

\* What a write of c that stops part-way leaves behind: the first half of c.
CutShort(c) == SubSeq(c, 1, Len(c) \div 2)

(***************************************************************************)
(* Time headers                                                            *)
(***************************************************************************)
NoHeader == [fmt |-> "", sec |-> 0]
FormatRFC1123(t) == [fmt |-> "RFC1123", sec |-> t]
ParseRFC1123(h) ==
    IF h.fmt = "RFC1123" THEN [ok |-> TRUE, t |-> h.sec] ELSE [ok |-> FALSE, t |-> 0]
\* The server's clock stands at 0 (the device's may be ahead of it); a response
\* may also come without a usable Date.
DateHeaders == {FormatRFC1123(0), NoHeader}

(***************************************************************************)
(* The crypto capability and the bundle codec                              *)
(***************************************************************************)
Encrypt(v) == <<0>> \o v
Decrypt(c) ==
    IF Len(c) > 1 /\ c[1] = 0 THEN [ok |-> TRUE, val |-> Tail(c)]
    ELSE [ok |-> FALSE, val |-> <<>>]

EndMark == [name |-> "", Value |-> <<>>, OnChanged |-> <<>>]
EmptyConfig == [n \in {} |-> [Value |-> <<>>, OnChanged |-> <<>>]]

\* The document the server sends for bundle B: its entries, then the closing mark.
Marshal(B) ==
    LET keep(n) == n \in DOMAIN B
        entry(n) == [name |-> n, Value |-> Encrypt(B[n]), OnChanged |-> OnChangedOf(n)]
        names == SelectSeq(NameOrder, keep)
    IN  [i \in 1 .. Len(names) |-> entry(names[i])] \o <<EndMark>>

WellFormed(raw) ==
    /\ Len(raw) >= 1
    /\ raw[Len(raw)] = EndMark
    /\ \A i \in 1 .. (Len(raw) - 1) : raw[i] # EndMark
    /\ \A i, j \in 1 .. (Len(raw) - 1) : raw[i].name = raw[j].name => i = j

Unmarshall(raw, decrypt) ==
    IF ~WellFormed(raw) THEN [err |-> "format", cfg |-> EmptyConfig]
    ELSE LET idx == 1 .. (Len(raw) - 1)
             at(n) == CHOOSE i \in idx : raw[i].name = n
         IN  IF decrypt /\ \E i \in idx : ~Decrypt(raw[i].Value).ok
             THEN [err |-> "decrypt", cfg |-> EmptyConfig]
             ELSE [err |-> "",
                   cfg |-> [n \in {raw[i].name : i \in idx} |->
                              [Value |-> IF decrypt THEN Decrypt(raw[at(n)].Value).val
                                         ELSE raw[at(n)].Value,
                               OnChanged |-> raw[at(n)].OnChanged]]]

UnmarshallBuffer(body, decrypt) == Unmarshall(body, decrypt)
UnmarshallFile(d, path, decrypt) ==
    IF ~Exists(d, path) THEN [err |-> "notexist", cfg |-> EmptyConfig]
    ELSE Unmarshall(d[path].data, decrypt)

(***************************************************************************)
(* The server's answers                                                    *)
(***************************************************************************)
\* A document cut short, and one whose entry does not decrypt.
BadBodies ==
    {<<[name |-> "a", Value |-> Encrypt(<<1, 1>>), OnChanged |-> <<>>]>>,
     <<[name |-> "a", Value |-> <<9, 9>>, OnChanged |-> <<>>], EndMark>>}
Bodies == {Marshal(B) : B \in Bundles} \cup BadBodies
ErrorText == <<"server error">>
NoResponse == [status |-> 0, body |-> <<>>, date |-> NoHeader]
\* A 200 carries a bundle document; the other statuses carry text, or nothing.
BundleResponses ==
    {[status |-> 200, body |-> b, date |-> h] : b \in Bodies, h \in DateHeaders}
TextResponses ==
    {[status |-> s, body |-> <<>>, date |-> FormatRFC1123(0)] : s \in {204, 304}}
    \cup {[status |-> 500, body |-> ErrorText, date |-> FormatRFC1123(0)]}

(***************************************************************************)
(* Errors                                                                  *)
(***************************************************************************)
Err(kind) == [kind |-> kind, status |-> 0, msg |-> <<>>]
Nil == Err("nil")
NotModifiedError == Err("NotModified")
HttpError(r) == [kind |-> "http", status |-> r.status, msg |-> r.body]

(***************************************************************************)
(* Pieces of the code the actions below are built from                     *)
(***************************************************************************)
\* safeWrite, line 208: the sibling path the new content is written to.
TmpPathInPlace(p) == p
TmpPath(p) == p \o ".tmp"

\* updateSecret, lines 198-201: a write is needed unless the file reads back equal.
NeedsWrite(d, p, content) == ~(Exists(d, p) /\ d[p].data = content)

\* extract, lines 244-247: the names of prev the first loop has not seen.
ToRemoveNone(prev, allFname) == {}
ToRemove(prev, allFname) == DOMAIN prev \ allFname

\* checkin, lines 302-345: the branch a status code takes.
BranchWithout204(status) ==
    IF status = 200 THEN "ok" ELSE IF status = 304 THEN "notmodified" ELSE "error"
BranchLenient(status) ==
    IF status = 200 THEN "ok" ELSE "notmodified"
Branch(status) ==
    IF status = 200 THEN "ok"
    ELSE IF status = 304 THEN "notmodified"
    ELSE IF status = 204 THEN "notmodified"
    ELSE "error"

\* checkin, lines 309-311: where checkin goes with what UnmarshallBuffer returned.
AfterDecodeIgnoresErr(err) == "ex_stat"
AfterDecode(err) == IF err # "" THEN "ret" ELSE "ex_stat"

\* checkin, lines 320-322: where checkin goes when extract returns err.
AfterExtractErrIgnored(err) == "ex_ok"
AfterExtractErr(err) == "ret"

\* runOnChanged, lines 270-281: the command run for fname, if it has one.
HookRun(d, fname, fullpath, onChanged) ==
    IF Len(onChanged) > 0
    THEN <<[fname |-> fname, cmd |-> onChanged, env |-> fullpath,
            exists |-> Exists(d, fullpath), data |-> Stat(d, fullpath).data]>>
    ELSE <<>>

\* checkin, lines 290-294: the If-Modified-Since header of the request.
IfModifiedSince(d) ==
    IF Exists(d, EncryptedConfig) THEN FormatRFC1123(d[EncryptedConfig].mtime)
    ELSE NoHeader

\* checkin, lines 327-331: the time given to the persisted bundle.
ModTime(date, now) == IF ParseRFC1123(date).ok THEN ParseRFC1123(date).t ELSE now

(***************************************************************************)
(* The process around the cycle: sota.toml, createClient, the hardware     *)
(* session, the registry of init functions                                 *)
(***************************************************************************)
\* Settings of sota.toml; "" is a key that is missing.
CaSources == {"file", "pkcs11"}
PkeySources == {"file", "pkcs11", "tpm", ""}
CertSources == {"file", "pkcs11"}

\* Object ids as sota.toml writes them, as the bytes of the text: "01", "10", "00".
Ids == {<<48, 49>>, <<49, 48>>, <<48, 48>>}
CertIds == {<<48, 49>>, <<48, 48>>}

Sotas ==
    [ca_source : CaSources, pkey_source : PkeySources, cert_source : CertSources,
     tls_pkey_id : Ids, tls_clientcert_id : CertIds]

\* The init functions other packages have registered before the first cycle.
InitNames == {"h1", "h2"}

\* tomlGet, lines 44-51: the value of a key; the process exits if it is empty.
tomlGet(val) == [exit |-> val = "", val |-> val]

\* tomlAssertVal, lines 53-62: it prints a complaint for a value that is not
\* allowed, and returns the value all the same.
tomlAssertVal(val, allowed) ==
    [exit |-> tomlGet(val).exit, val |-> tomlGet(val).val,
     complained |-> ~tomlGet(val).exit /\ val \notin allowed]

\* createClient, lines 164-167: the constructor the source leads to.
Constructor(source) ==
    IF source = "file" THEN "createClientLocal" ELSE "createClientPkcs11"

\* idToBytes, lines 65-76: every byte has '0' subtracted (byte arithmetic), start
\* is the index of the first byte that is not 0, or -1, and bytes[start:] is
\* returned; slicing from -1 panics.
idToBytes(id) ==
    LET bytes == [i \in 1 .. Len(id) |-> (id[i] - 48) % 256]
        nonzero == {i \in 1 .. Len(id) : bytes[i] # 0}
        start == IF nonzero = {} THEN -1
                 ELSE (CHOOSE i \in nonzero : \A j \in nonzero : i <= j) - 1
    IN  IF start < 0 THEN [panic |-> TRUE, val |-> <<>>]
        ELSE [panic |-> FALSE, val |-> SubSeq(bytes, start + 1, Len(bytes))]

\* CryptoHandler.Close: the handler built by createClientPkcs11 gives its session
\* back, the one built by createClientLocal holds none.
Close(n, constructor) ==
    IF constructor = "createClientPkcs11" /\ n > 0 THEN n - 1 ELSE n

\* callInitFunctions, lines 364-368: the registry after cb returned.
AfterCallbackKeeps(registry, name, failed) == registry
AfterCallback(registry, name, failed) ==
    IF failed THEN registry ELSE registry \ {name}

NoId == [set |-> FALSE, id |-> <<>>, out |-> [panic |-> FALSE, val |-> <<>>]]
NoCalls == [n \in InitNames |-> 0]
GoodSota ==
    [ca_source |-> "file", pkey_source |-> "file", cert_source |-> "file",
     tls_pkey_id |-> <<48, 49>>, tls_clientcert_id |-> <<48, 49>>]

\* CheckIn has built its client and handler, run the init functions, and is in
\* checkin: the cycle above.
InCheckin ==
    /\ sota = GoodSota
    /\ op = "CheckIn"
    /\ apc = "checkin"
    /\ open = 0
    /\ initFunctions = {}
    /\ pending = {}
    /\ reg0 = {}
    /\ calls = NoCalls
    /\ succeeded = {}
    /\ again = FALSE
    /\ reached = "createClientLocal"
    /\ lastId = NoId
    /\ fetched = TRUE

(***************************************************************************)
(* The state after construction: the agent starts on a fresh device, or on *)
(* one where an earlier run has completed a cycle for the bundle of "a"    *)
(* and "b" (answered with Date 0)                                          *)
(***************************************************************************)
NoConfig == [set |-> FALSE, prevNil |-> TRUE, prev |-> EmptyConfig, next |-> EmptyConfig]
NoSw == [file |-> "", content |-> <<>>, caller |-> "", err |-> FALSE]
NoLw == [set |-> FALSE, file |-> "", old |-> NoFile, new |-> <<>>]
NoAccepted == [set |-> FALSE, date |-> NoHeader]
NoApplied == [ok |-> FALSE, body |-> <<>>]
NoLost == [set |-> FALSE, ims |-> NoHeader]

FirstBundle == MkBundle(<<1, 1>>, Absent, <<1, 1>>)
\* What the codec makes of its document.
FirstBundleConfig == Unmarshall(Marshal(FirstBundle), TRUE).cfg

\* The files a completed cycle for bundle B, answered with server time t, leaves.
Provisioned(B, t) ==
    [q \in {SecretPath(n) : n \in DOMAIN B} \cup {EncryptedConfig} |->
        IF q = EncryptedConfig THEN [data |-> Marshal(B), mtime |-> t]
        ELSE [data |-> B[CHOOSE n \in DOMAIN B : SecretPath(n) = q], mtime |-> 0]]

CycleInit ==
    /\ \/ /\ fs = EmptyFs
          /\ accepted = NoAccepted
          /\ applied = NoApplied
       \/ /\ fs = Provisioned(FirstBundle, 0)
          /\ accepted = [set |-> TRUE, date |-> FormatRFC1123(0)]
          /\ applied = [ok |-> TRUE, body |-> Marshal(FirstBundle)]
    /\ pc = "idle"
    /\ req = NoHeader
    /\ res = NoResponse
    /\ config = NoConfig
    /\ todo = {}
    /\ seen = {}
    /\ cur = ""
    /\ sw = NoSw
    /\ ret = Nil
    /\ cycles = 0
    /\ fs0 = EmptyFs
    /\ hooks = <<>>
    /\ touched = {}
    /\ lw = NoLw
    /\ extractOk = FALSE
    /\ rmRuns = [n \in Names |-> 0]
    /\ reapply = FALSE
    /\ lost = NoLost

\* The server has not settled on a bundle: it answers as it likes.
NoOffer == [set |-> FALSE, bundle |-> MkBundle(Absent, Absent, Absent), time |-> 0]

Init == CycleInit /\ InCheckin /\ offer = NoOffer

history == <<fs0, hooks, touched, lw, extractOk, rmRuns, accepted, applied, reapply,
             lost>>

\* checkin returns e.
Return(e) ==
    /\ pc' = "ret"
    /\ ret' = e
    /\ applied' = IF e = Nil THEN [ok |-> TRUE, body |-> res.body] ELSE applied

\* A call of safeWrite(file, content) begins.
EnterSafeWrite(file, content, caller) ==
    /\ pc' = "sw_open"
    /\ sw' = [file |-> file, content |-> content, caller |-> caller, err |-> FALSE]
    /\ lw' = [set |-> TRUE, file |-> file, old |-> Stat(fs, file), new |-> content]

(***************************************************************************)
(* checkin, lines 283-300: the conditional request                         *)
(***************************************************************************)
StartCycle ==
    /\ pc = "idle"
    /\ cycles < MaxCycles
    /\ cycles' = cycles + 1
    /\ req' = IfModifiedSince(fs)
    /\ fs0' = fs
    /\ hooks' = <<>>
    /\ touched' = {}
    /\ lw' = NoLw
    /\ extractOk' = FALSE
    /\ reapply' = FALSE

\* client.Do answers.
Request ==
    /\ StartCycle
    /\ \/ \E r \in BundleResponses : res' = r
       \/ \E r \in TextResponses : res' = r
    /\ pc' = "resp"
    /\ UNCHANGED <<fs, config, todo, seen, cur, sw, ret, rmRuns, accepted, applied, lost>>
    /\ UNCHANGED <<appVars, offer>>

\* client.Do fails: lines 297-299.
RequestFails ==
    /\ StartCycle
    /\ res' = NoResponse
    /\ pc' = "ret"
    /\ ret' = Err("get")
    /\ UNCHANGED <<fs, config, todo, seen, cur, sw, rmRuns, accepted, applied, lost>>
    /\ UNCHANGED <<appVars, offer>>

(***************************************************************************)
(* checkin, lines 302-346: the response                                    *)
(***************************************************************************)
\* Lines 303-306: the body cannot be read.
On200ReadFails ==
    /\ pc = "resp"
    /\ Branch(res.status) = "ok"
    /\ Return(Err("read"))
    /\ UNCHANGED <<fs, req, res, config, todo, seen, cur, sw, cycles,
                   fs0, hooks, touched, lw, extractOk, rmRuns, accepted, reapply, lost>>
    /\ UNCHANGED <<appVars, offer>>

\* Lines 308-318: next is decoded and decrypted, prev is decoded from the file.
On200 ==
    /\ pc = "resp"
    /\ Branch(res.status) = "ok"
    /\ LET next == UnmarshallBuffer(res.body, TRUE)
           prev == UnmarshallFile(fs, EncryptedConfig, FALSE)
       IN  IF AfterDecode(next.err) = "ret"
           THEN /\ Return(Err(next.err))
                /\ UNCHANGED <<config, reapply>>
           ELSE IF prev.err \notin {"", "notexist"}
           THEN /\ Return(Err(prev.err))
                /\ UNCHANGED <<config, reapply>>
           ELSE /\ config' = [set |-> TRUE, prevNil |-> prev.err = "notexist",
                              prev |-> prev.cfg, next |-> next.cfg]
                /\ pc' = "ex_stat"
                /\ reapply' = (applied.ok /\ applied.body = res.body)
                /\ applied' = NoApplied
                /\ ret' = ret
    /\ UNCHANGED <<fs, req, res, todo, seen, cur, sw, cycles,
                   fs0, hooks, touched, lw, extractOk, rmRuns, accepted, lost>>
    /\ UNCHANGED <<appVars, offer>>

\* Lines 336-338.
On304 ==
    /\ pc = "resp"
    /\ Branch(res.status) = "notmodified"
    /\ res.status = 304
    /\ Return(NotModifiedError)
    /\ UNCHANGED <<fs, req, res, config, todo, seen, cur, sw, cycles,
                   fs0, hooks, touched, lw, extractOk, rmRuns, accepted, reapply, lost>>
    /\ UNCHANGED <<appVars, offer>>

\* Lines 339-341.
On204 ==
    /\ pc = "resp"
    /\ Branch(res.status) = "notmodified"
    /\ res.status # 304
    /\ Return(NotModifiedError)
    /\ UNCHANGED <<fs, req, res, config, todo, seen, cur, sw, cycles,
                   fs0, hooks, touched, lw, extractOk, rmRuns, accepted, reapply, lost>>
    /\ UNCHANGED <<appVars, offer>>

\* Lines 342-345.
OnOtherStatus ==
    /\ pc = "resp"
    /\ Branch(res.status) = "error"
    /\ Return(HttpError(res))
    /\ UNCHANGED <<fs, req, res, config, todo, seen, cur, sw, cycles,
                   fs0, hooks, touched, lw, extractOk, rmRuns, accepted, reapply, lost>>
    /\ UNCHANGED <<appVars, offer>>

(***************************************************************************)
(* extract, lines 221-257                                                  *)
(***************************************************************************)
\* extract returns err to checkin, line 320.
ExtractFails(kind) ==
    IF AfterExtractErr(kind) = "ret"
    THEN Return(Err(kind)) /\ extractOk' = extractOk
    ELSE pc' = AfterExtractErr(kind) /\ UNCHANGED <<ret, applied, extractOk>>

\* Lines 222-226: the secrets directory is there.
ExStat ==
    /\ pc = "ex_stat"
    /\ pc' = "ex_loop"
    /\ todo' = DOMAIN config.next
    /\ seen' = {}
    /\ UNCHANGED <<fs, req, res, config, cur, sw, ret, cycles, history>>
    /\ UNCHANGED <<appVars, offer>>

\* Lines 222-224: it is not.
ExStatFails ==
    /\ pc = "ex_stat"
    /\ ExtractFails("stat")
    /\ UNCHANGED <<fs, req, res, config, todo, seen, cur, sw, cycles,
                   fs0, hooks, touched, lw, rmRuns, accepted, reapply, lost>>
    /\ UNCHANGED <<appVars, offer>>

\* Lines 227-231, with updateSecret (197-202): the loop takes the next key of next,
\* in any order, and writes the file unless it reads back equal.
ExNext ==
    /\ pc = "ex_loop"
    /\ \E fname \in todo :
         LET fullpath == SecretPath(fname)
             content == config.next[fname].Value
         IN  /\ todo' = todo \ {fname}
             /\ seen' = seen \cup {fname}
             /\ cur' = fname
             /\ IF NeedsWrite(fs, fullpath, content)
                THEN EnterSafeWrite(fullpath, content, "extract")
                ELSE pc' = "ex_loop" /\ UNCHANGED <<sw, lw>>
    /\ UNCHANGED <<fs, req, res, config, ret, cycles,
                   fs0, hooks, touched, extractOk, rmRuns, accepted, applied, reapply, lost>>
    /\ UNCHANGED <<appVars, offer>>

\* Lines 235-237: the file changed, its hook runs.
ExHook ==
    /\ pc = "ex_hook"
    /\ hooks' = hooks \o HookRun(fs, cur, SecretPath(cur), config.next[cur].OnChanged)
    /\ pc' = "ex_loop"
    /\ UNCHANGED <<fs, req, res, config, todo, seen, cur, sw, ret, cycles,
                   fs0, touched, lw, extractOk, rmRuns, accepted, applied, reapply, lost>>
    /\ UNCHANGED <<appVars, offer>>

\* Lines 240-247: the first loop is over; without prev extract returns nil.
ExLoopDone ==
    /\ pc = "ex_loop"
    /\ todo = {}
    /\ IF config.prevNil
       THEN pc' = "ex_ok" /\ extractOk' = TRUE /\ todo' = todo
       ELSE pc' = "rm_loop" /\ extractOk' = extractOk
            /\ todo' = ToRemove(config.prev, seen)
    /\ UNCHANGED <<fs, req, res, config, seen, cur, sw, ret, cycles,
                   fs0, hooks, touched, lw, rmRuns, accepted, applied, reapply, lost>>
    /\ UNCHANGED <<appVars, offer>>

\* Lines 244-250: a name of prev that next does not have is removed; that the
\* file is already absent is no error.
RmNext ==
    /\ pc = "rm_loop"
    /\ \E fname \in todo :
         LET fullpath == SecretPath(fname)
         IN  /\ todo' = todo \ {fname}
             /\ cur' = fname
             /\ fs' = FsRemove(fs, fullpath)
             /\ touched' = IF Exists(fs, fullpath) THEN touched \cup {fullpath} ELSE touched
    /\ pc' = "rm_hook"
    /\ UNCHANGED <<req, res, config, seen, sw, ret, cycles,
                   fs0, hooks, lw, extractOk, rmRuns, accepted, applied, reapply, lost>>
    /\ UNCHANGED <<appVars, offer>>

\* Lines 250-252: os.Remove fails with another error.
RmFails ==
    /\ pc = "rm_loop"
    /\ \E fname \in todo :
         /\ todo' = todo \ {fname}
         /\ cur' = fname
    /\ ExtractFails("remove")
    /\ UNCHANGED <<fs, req, res, config, seen, sw, cycles,
                   fs0, hooks, touched, lw, rmRuns, accepted, reapply, lost>>
    /\ UNCHANGED <<appVars, offer>>

\* Line 253: the removed entry's hook, from prev.
RmHook ==
    /\ pc = "rm_hook"
    /\ LET run == HookRun(fs, cur, SecretPath(cur), config.prev[cur].OnChanged)
       IN  /\ hooks' = hooks \o run
           /\ rmRuns' = IF run = <<>> \/ rmRuns[cur] >= 2 THEN rmRuns
                        ELSE [rmRuns EXCEPT ![cur] = @ + 1]
    /\ pc' = "rm_loop"
    /\ UNCHANGED <<fs, req, res, config, todo, seen, cur, sw, ret, cycles,
                   fs0, touched, lw, extractOk, accepted, applied, reapply, lost>>
    /\ UNCHANGED <<appVars, offer>>

\* Line 256.
RmDone ==
    /\ pc = "rm_loop"
    /\ todo = {}
    /\ pc' = "ex_ok"
    /\ extractOk' = TRUE
    /\ UNCHANGED <<fs, req, res, config, todo, seen, cur, sw, ret, cycles,
                   fs0, hooks, touched, lw, rmRuns, accepted, applied, reapply, lost>>
    /\ UNCHANGED <<appVars, offer>>

(***************************************************************************)
(* safeWrite, lines 207-219                                                *)
(***************************************************************************)
\* Line 212, ioutil.WriteFile opens tmp: created, or truncated if it is there.
SwOpen ==
    /\ pc = "sw_open"
    /\ \E now \in Times : fs' = FsPut(fs, TmpPath(sw.file), <<>>, now)
    /\ touched' = touched \cup {TmpPath(sw.file)}
    /\ pc' = "sw_write"
    /\ UNCHANGED <<req, res, config, todo, seen, cur, sw, ret, cycles,
                   fs0, hooks, lw, extractOk, rmRuns, accepted, applied, reapply, lost>>
    /\ UNCHANGED <<appVars, offer>>

\* Lines 212-214: tmp cannot be opened.
SwOpenFails ==
    /\ pc = "sw_open"
    /\ sw' = [sw EXCEPT !.err = TRUE]
    /\ pc' = "sw_defer"
    /\ UNCHANGED <<fs, req, res, config, todo, seen, cur, ret, cycles, history>>
    /\ UNCHANGED <<appVars, offer>>

\* Line 212, ioutil.WriteFile writes the content.
SwWrite ==
    /\ pc = "sw_write"
    /\ fs' = [fs EXCEPT ![TmpPath(sw.file)].data = sw.content]
    /\ pc' = "sw_rename"
    /\ UNCHANGED <<req, res, config, todo, seen, cur, sw, ret, cycles, history>>
    /\ UNCHANGED <<appVars, offer>>

\* Lines 212-214: the write stops part-way.
SwWriteFails ==
    /\ pc = "sw_write"
    /\ fs' = [fs EXCEPT ![TmpPath(sw.file)].data = CutShort(sw.content)]
    /\ sw' = [sw EXCEPT !.err = TRUE]
    /\ pc' = "sw_defer"
    /\ UNCHANGED <<req, res, config, todo, seen, cur, ret, cycles, history>>
    /\ UNCHANGED <<appVars, offer>>

\* Line 215: tmp is renamed over the target.
SwRename ==
    /\ pc = "sw_rename"
    /\ fs' = FsRename(fs, TmpPath(sw.file), sw.file)
    /\ touched' = touched \cup {TmpPath(sw.file), sw.file}
    /\ rmRuns' = [n \in Names |-> IF SecretPath(n) = sw.file THEN 0 ELSE rmRuns[n]]
    /\ accepted' = IF sw.caller = "checkin" THEN [set |-> TRUE, date |-> res.date]
                   ELSE accepted
    /\ pc' = "sw_defer"
    /\ UNCHANGED <<req, res, config, todo, seen, cur, sw, ret, cycles,
                   fs0, hooks, lw, extractOk, applied, reapply, lost>>
    /\ UNCHANGED <<appVars, offer>>

\* Lines 215-217: the rename fails.
SwRenameFails ==
    /\ pc = "sw_rename"
    /\ sw' = [sw EXCEPT !.err = TRUE]
    /\ pc' = "sw_defer"
    /\ UNCHANGED <<fs, req, res, config, todo, seen, cur, ret, cycles, history>>
    /\ UNCHANGED <<appVars, offer>>

\* safeWrite returns to updateSecret and extract (231-237), or to checkin (323-325).
SwReturn ==
    IF sw.caller = "extract"
    THEN IF sw.err THEN ExtractFails("write")
         ELSE pc' = "ex_hook" /\ UNCHANGED <<ret, applied, extractOk>>
    ELSE IF sw.err THEN Return(Err("write")) /\ extractOk' = extractOk
         ELSE pc' = "chtimes" /\ UNCHANGED <<ret, applied, extractOk>>

\* Line 210, the deferred os.Remove(tmp): it removes tmp if tmp is there.
SwDefer ==
    /\ pc = "sw_defer"
    /\ fs' = FsRemove(fs, TmpPath(sw.file))
    /\ touched' = IF Exists(fs, TmpPath(sw.file)) THEN touched \cup {TmpPath(sw.file)}
                  ELSE touched
    /\ SwReturn
    /\ UNCHANGED <<req, res, config, todo, seen, cur, sw, cycles,
                   fs0, hooks, lw, rmRuns, accepted, reapply, lost>>
    /\ UNCHANGED <<appVars, offer>>

(***************************************************************************)
(* checkin, lines 320-335: the bundle is persisted                         *)
(***************************************************************************)
\* Line 323: extract returned nil, the body is written to EncryptedConfig.
Persist ==
    /\ pc = "ex_ok"
    /\ EnterSafeWrite(EncryptedConfig, res.body, "checkin")
    /\ UNCHANGED <<fs, req, res, config, todo, seen, cur, ret, cycles,
                   fs0, hooks, touched, extractOk, rmRuns, accepted, applied, reapply, lost>>
    /\ UNCHANGED <<appVars, offer>>

\* Lines 327-335: the file gets the server's Date, or the local time.
Chtimes ==
    /\ pc = "chtimes"
    /\ \E now \in Times :
         fs' = FsChtimes(fs, EncryptedConfig, ModTime(res.date, now))
    /\ Return(Nil)
    /\ UNCHANGED <<req, res, config, todo, seen, cur, sw, cycles,
                   fs0, hooks, touched, lw, extractOk, rmRuns, accepted, reapply, lost>>
    /\ UNCHANGED <<appVars, offer>>

\* Lines 332-334: os.Chtimes fails.
ChtimesFails ==
    /\ pc = "chtimes"
    /\ Return(Err("chtimes"))
    /\ UNCHANGED <<fs, req, res, config, todo, seen, cur, sw, cycles,
                   fs0, hooks, touched, lw, extractOk, rmRuns, accepted, reapply, lost>>
    /\ UNCHANGED <<appVars, offer>>

(***************************************************************************)
(* The cycle ends; the process dies                                        *)
(***************************************************************************)
Forget ==
    /\ pc' = "idle"
    /\ req' = NoHeader
    /\ res' = NoResponse
    /\ config' = NoConfig
    /\ todo' = {}
    /\ seen' = {}
    /\ cur' = ""
    /\ sw' = NoSw
    /\ ret' = Nil
    /\ fs0' = EmptyFs
    /\ hooks' = <<>>
    /\ touched' = {}
    /\ lw' = NoLw
    /\ extractOk' = FALSE
    /\ reapply' = FALSE
    /\ lost' = IF res.status = 200 /\ lw.file # EncryptedConfig
               THEN [set |-> TRUE, ims |-> req] ELSE NoLost
    /\ UNCHANGED <<fs, cycles, rmRuns, accepted>>

\* The caller has the result; the scheduler will start the next cycle.
EndCycle ==
    /\ pc = "ret"
    /\ Forget
    /\ UNCHANGED applied
    /\ UNCHANGED <<appVars, offer>>

\* The process is killed between two system calls of the cycle and is started
\* again: what the files hold is all that is left of the cycle.
Crash ==
    /\ pc \notin {"idle", "ret"}
    /\ Forget
    /\ UNCHANGED applied
    /\ UNCHANGED <<appVars, offer>>

Next ==
    \/ Request \/ RequestFails
    \/ On200ReadFails \/ On200 \/ On304 \/ On204 \/ OnOtherStatus
    \/ ExStat \/ ExStatFails \/ ExNext \/ ExHook \/ ExLoopDone
    \/ RmNext \/ RmFails \/ RmHook \/ RmDone
    \/ SwOpen \/ SwOpenFails \/ SwWrite \/ SwWriteFails
    \/ SwRename \/ SwRenameFails \/ SwDefer
    \/ Persist \/ Chtimes \/ ChtimesFails
    \/ EndCycle \/ Crash

Spec == Init /\ [][Next]_vars

(***************************************************************************)
(* The operations of App: NewApp (170-194), CheckIn (348-353), Extract     *)
(* (259-268), CallInitFunctions (355-359).  Each builds a client and a     *)
(* crypto handler with createClient and closes the handler.  log.Fatal and *)
(* os.Exit end the process at once; so does a panic nothing recovers.      *)
(***************************************************************************)
\* The process starts: main calls NewApp with the sota.toml the device has.
AppInit ==
    /\ sota \in Sotas
    /\ op = "NewApp"
    /\ apc = "createClient"
    /\ open = 0
    /\ initFunctions = InitNames
    /\ pending = {}
    /\ reg0 = {}
    /\ calls = NoCalls
    /\ succeeded = {}
    /\ again = FALSE
    /\ reached = ""
    /\ lastId = NoId
    /\ fetched = FALSE

\* The caller of App starts CheckIn, Extract or CallInitFunctions.
Call ==
    /\ apc = "ready"
    /\ \E o \in {"CheckIn", "Extract", "CallInitFunctions"} : op' = o
    /\ apc' = "createClient"
    /\ reached' = ""
    /\ fetched' = FALSE
    /\ UNCHANGED <<sota, open, initFunctions, pending, reg0, calls, succeeded, again,
                   lastId>>
    /\ UNCHANGED <<cycleVars, offer>>

\* createClient, lines 160-168: the three sources are read and the constructor
\* is chosen by tls.pkey_source.
CreateClient ==
    /\ apc = "createClient"
    /\ LET ca == tomlAssertVal(sota.ca_source, {"file"})
           source == tomlAssertVal(sota.pkey_source, {"file", "pkcs11"})
           cert == tomlAssertVal(sota.cert_source, {source.val})
       IN  IF ca.exit \/ source.exit \/ cert.exit
           THEN apc' = "exited" /\ reached' = reached
           ELSE /\ reached' = Constructor(source.val)
                /\ apc' = IF Constructor(source.val) = "createClientLocal"
                          THEN "local" ELSE "pkcs11"
    /\ UNCHANGED <<sota, op, open, initFunctions, pending, reg0, calls, succeeded,
                   again, lastId, fetched>>
    /\ UNCHANGED <<cycleVars, offer>>

\* createClientLocal, lines 130-158: the key pair and the CA file load, or
\* log.Fatal ends the process; an unsupported key panics.
CreateClientLocal ==
    /\ apc = "local"
    /\ \E outcome \in {"built", "exited", "panicked"} : apc' = outcome
    /\ UNCHANGED <<sota, op, open, initFunctions, pending, reg0, calls, succeeded,
                   again, reached, lastId, fetched>>
    /\ UNCHANGED <<cycleVars, offer>>

\* createClientPkcs11, lines 79-95: crypto11.Configure opens the session, or
\* log.Fatal ends the process.
Pkcs11Configure ==
    /\ apc = "pkcs11"
    /\ \/ apc' = "p11_key" /\ open' = open + 1
       \/ apc' = "exited" /\ open' = open
    /\ UNCHANGED <<sota, op, initFunctions, pending, reg0, calls, succeeded, again,
                   reached, lastId, fetched>>
    /\ UNCHANGED <<cycleVars, offer>>

\* The id of an object is converted and the object looked up: lines 97-100 for
\* the key pair, 101-104 for the certificate.
FindObject(id, found) ==
    LET out == idToBytes(id)
    IN  /\ lastId' = [set |-> TRUE, id |-> id, out |-> out]
        /\ IF out.panic THEN apc' = "panicked"
           ELSE \/ apc' = found
                \/ apc' = "exited"

Pkcs11FindKeyPair ==
    /\ apc = "p11_key"
    /\ FindObject(sota.tls_pkey_id, "p11_cert")
    /\ UNCHANGED <<sota, op, open, initFunctions, pending, reg0, calls, succeeded,
                   again, reached, fetched>>
    /\ UNCHANGED <<cycleVars, offer>>

Pkcs11FindCertificate ==
    /\ apc = "p11_cert"
    /\ FindObject(sota.tls_clientcert_id, "p11_ca")
    /\ UNCHANGED <<sota, op, open, initFunctions, pending, reg0, calls, succeeded,
                   again, reached, fetched>>
    /\ UNCHANGED <<cycleVars, offer>>

\* Lines 105-127: both objects are there and the CA file reads, or log.Fatal.
Pkcs11Finish ==
    /\ apc = "p11_ca"
    /\ \E outcome \in {"built", "exited"} : apc' = outcome
    /\ UNCHANGED <<sota, op, open, initFunctions, pending, reg0, calls, succeeded,
                   again, reached, lastId, fetched>>
    /\ UNCHANGED <<cycleVars, offer>>

\* NewApp, lines 177-194: the handler is closed at once and the App is returned.
NewAppCloses ==
    /\ apc = "built"
    /\ op = "NewApp"
    /\ open' = Close(open, reached)
    /\ apc' = "ready"
    /\ op' = ""
    /\ UNCHANGED <<sota, initFunctions, pending, reg0, calls, succeeded, again,
                   reached, lastId, fetched>>
    /\ UNCHANGED <<cycleVars, offer>>

\* CheckIn 350-351, CallInitFunctions 357-358: Close is deferred and the range
\* loop of callInitFunctions (362) begins.
RangeInitFunctions ==
    /\ apc = "built"
    /\ op \in {"CheckIn", "CallInitFunctions"}
    /\ apc' = "init"
    /\ pending' = initFunctions
    /\ reg0' = initFunctions
    /\ calls' = NoCalls
    /\ UNCHANGED <<sota, op, open, initFunctions, succeeded, again, reached, lastId,
                   fetched>>
    /\ UNCHANGED <<cycleVars, offer>>

\* callInitFunctions, lines 362-368: cb is called; it is deleted if it returned nil.
CallInitFunction ==
    /\ apc = "init"
    /\ \E name \in pending, failed \in BOOLEAN :
         /\ pending' = pending \ {name}
         /\ calls' = [calls EXCEPT ![name] = @ + 1]
         /\ again' = (again \/ name \in succeeded)
         /\ initFunctions' = AfterCallback(initFunctions, name, failed)
         /\ succeeded' = IF failed THEN succeeded ELSE succeeded \cup {name}
    /\ UNCHANGED <<sota, op, apc, open, reg0, reached, lastId, fetched>>
    /\ UNCHANGED <<cycleVars, offer>>

\* The range loop is over: CheckIn goes on to checkin (352), CallInitFunctions
\* returns (359).
InitFunctionsDone ==
    /\ apc = "init"
    /\ pending = {}
    /\ apc' = IF op = "CheckIn" THEN "checkin" ELSE "closing"
    /\ UNCHANGED <<sota, op, open, initFunctions, pending, reg0, calls, succeeded,
                   again, reached, lastId, fetched>>
    /\ UNCHANGED <<cycleVars, offer>>

\* CheckIn, line 352: checkin runs (the cycle above) and returns.
CheckinReturns ==
    /\ apc = "checkin"
    /\ fetched' = TRUE
    /\ apc' = "closing"
    /\ UNCHANGED <<sota, op, open, initFunctions, pending, reg0, calls, succeeded,
                   again, reached, lastId>>
    /\ UNCHANGED <<cycleVars, offer>>

\* Extract, lines 261-267: Close is deferred; UnmarshallFile and extract run and
\* return, with an error or without.
ExtractReturns ==
    /\ apc = "built"
    /\ op = "Extract"
    /\ apc' = "closing"
    /\ UNCHANGED <<sota, op, open, initFunctions, pending, reg0, calls, succeeded,
                   again, reached, lastId, fetched>>
    /\ UNCHANGED <<cycleVars, offer>>

\* The deferred crypto.Close() runs as the operation returns: lines 261, 350, 357.
DeferredClose ==
    /\ apc = "closing"
    /\ open' = Close(open, reached)
    /\ apc' = "ready"
    /\ UNCHANGED <<sota, op, initFunctions, pending, reg0, calls, succeeded, again,
                   reached, lastId, fetched>>
    /\ UNCHANGED <<cycleVars, offer>>

NextApp ==
    \/ Call \/ CreateClient \/ CreateClientLocal
    \/ Pkcs11Configure \/ Pkcs11FindKeyPair \/ Pkcs11FindCertificate \/ Pkcs11Finish
    \/ NewAppCloses \/ RangeInitFunctions \/ CallInitFunction \/ InitFunctionsDone
    \/ CheckinReturns \/ ExtractReturns \/ DeferredClose

\* The files stay as a fresh device has them while the operations come and go.
InitApp == CycleInit /\ fs = EmptyFs /\ AppInit /\ offer = NoOffer

SpecApp == InitApp /\ [][NextApp]_vars

(***************************************************************************)
(* The earlier App of src/internal/app.go: CheckIn (138-166) persists the  *)
(* body with its own safeWrite (117-136) and then calls Extract (97-113),  *)
(* which decodes the persisted file and writes every entry in place.  It   *)
(* runs on the same files; it has no hooks, no removals and sets no time.  *)
(***************************************************************************)
\* http.NewRequest failed: req is nil.
NilRequest == [fmt |-> "nil", sec |-> 0]

\* os.OpenFile(O_RDWR|O_CREATE) and io.Copy, lines 121-127: the file is written
\* from its start and is not truncated.
WriteOver(old, new) ==
    IF Len(old) > Len(new) THEN new \o SubSeq(old, Len(new) + 1, Len(old)) ELSE new

\* Lines 139-140: the request is built, or it is not; err is overwritten unread.
OldNewRequest ==
    /\ pc = "idle"
    /\ cycles < MaxCycles
    /\ cycles' = cycles + 1
    /\ req' \in {NoHeader, NilRequest}
    /\ pc' = "old_stat"
    /\ fs0' = fs
    /\ touched' = {}
    /\ extractOk' = FALSE
    /\ UNCHANGED <<fs, res, config, todo, seen, cur, sw, ret, hooks, lw, rmRuns,
                   accepted, applied, reapply, lost>>
    /\ UNCHANGED <<appVars, offer>>

\* Lines 141-146: the header is added to req if the bundle is there; adding it to
\* a nil request is a nil dereference.
OldStat ==
    /\ pc = "old_stat"
    /\ IF Exists(fs, EncryptedConfig)
       THEN IF req = NilRequest THEN pc' = "panicked" /\ req' = req
            ELSE pc' = "old_do" /\ req' = IfModifiedSince(fs)
       ELSE pc' = "old_do" /\ req' = req
    /\ UNCHANGED <<fs, res, config, todo, seen, cur, sw, ret, cycles, history>>
    /\ UNCHANGED <<appVars, offer>>

\* Lines 148-151: a.client.Do(req); with a nil request it dereferences nil.
OldDo ==
    /\ pc = "old_do"
    /\ IF req = NilRequest THEN pc' = "panicked" /\ UNCHANGED <<res, ret>>
       ELSE \/ pc' = "ret" /\ ret' = Err("get") /\ res' = NoResponse
            \/ /\ \/ \E r \in BundleResponses : res' = r
                  \/ \E r \in TextResponses : res' = r
               /\ pc' = "old_resp"
               /\ ret' = ret
    /\ UNCHANGED <<fs, req, config, todo, seen, cur, sw, cycles, history>>
    /\ UNCHANGED <<appVars, offer>>

\* Lines 152-154: a 200 goes to safeWrite(res.Body, a.EncryptedConfig).
OldOn200 ==
    /\ pc = "old_resp"
    /\ res.status = 200
    /\ pc' = "old_sw_open"
    /\ UNCHANGED <<fs, req, res, config, todo, seen, cur, sw, ret, cycles, history>>
    /\ UNCHANGED <<appVars, offer>>

\* Lines 157-159.
OldOn304 ==
    /\ pc = "old_resp"
    /\ res.status = 304
    /\ pc' = "ret"
    /\ ret' = NotModifiedError
    /\ UNCHANGED <<fs, req, res, config, todo, seen, cur, sw, cycles, history>>
    /\ UNCHANGED <<appVars, offer>>

\* Lines 160-164: every other status, 204 among them.
OldOnOtherStatus ==
    /\ pc = "old_resp"
    /\ res.status \notin {200, 304}
    /\ pc' = "ret"
    /\ ret' = HttpError(res)
    /\ UNCHANGED <<fs, req, res, config, todo, seen, cur, sw, cycles, history>>
    /\ UNCHANGED <<appVars, offer>>

\* safeWrite, lines 120-125: the temporary file is opened, created if missing.
OldSwOpen ==
    /\ pc = "old_sw_open"
    /\ \/ /\ pc' = "old_sw_copy"
          /\ \E now \in Times :
               fs' = IF Exists(fs, TmpPath(EncryptedConfig)) THEN fs
                     ELSE FsPut(fs, TmpPath(EncryptedConfig), <<>>, now)
          /\ touched' = touched \cup {TmpPath(EncryptedConfig)}
          /\ ret' = ret
       \/ /\ pc' = "ret"
          /\ ret' = Err("write")
          /\ UNCHANGED <<fs, touched>>
    /\ UNCHANGED <<req, res, config, todo, seen, cur, sw, cycles,
                   fs0, hooks, lw, extractOk, rmRuns, accepted, applied, reapply, lost>>
    /\ UNCHANGED <<appVars, offer>>

\* Lines 127-130: io.Copy writes the body, all of it or a part.
OldSwCopy ==
    /\ pc = "old_sw_copy"
    /\ \E now \in Times :
         LET old == fs[TmpPath(EncryptedConfig)].data
         IN  \/ /\ fs' = FsPut(fs, TmpPath(EncryptedConfig), WriteOver(old, res.body), now)
                /\ pc' = "old_sw_rename"
                /\ ret' = ret
             \/ /\ fs' = FsPut(fs, TmpPath(EncryptedConfig),
                               WriteOver(old, CutShort(res.body)), now)
                /\ pc' = "ret"
                /\ ret' = Err("write")
    /\ UNCHANGED <<req, res, config, todo, seen, cur, sw, cycles, history>>
    /\ UNCHANGED <<appVars, offer>>

\* Lines 132-135: the temporary file is renamed onto the bundle.
OldSwRename ==
    /\ pc = "old_sw_rename"
    /\ \/ /\ fs' = FsRename(fs, TmpPath(EncryptedConfig), EncryptedConfig)
          /\ touched' = touched \cup {EncryptedConfig}
          /\ pc' = "old_extract"
          /\ ret' = ret
       \/ /\ pc' = "ret"
          /\ ret' = Err("write")
          /\ UNCHANGED <<fs, touched>>
    /\ UNCHANGED <<req, res, config, todo, seen, cur, sw, cycles,
                   fs0, hooks, lw, extractOk, rmRuns, accepted, applied, reapply, lost>>
    /\ UNCHANGED <<appVars, offer>>

\* Extract, lines 98-104: the secrets directory is there and the persisted file
\* decodes and decrypts, or Extract returns the error.
OldExtract ==
    /\ pc = "old_extract"
    /\ LET new == UnmarshallFile(fs, EncryptedConfig, TRUE)
       IN  \/ pc' = "ret" /\ ret' = Err("stat") /\ UNCHANGED <<config, todo>>
           \/ IF new.err # ""
              THEN pc' = "ret" /\ ret' = Err(new.err) /\ UNCHANGED <<config, todo>>
              ELSE /\ config' = [NoConfig EXCEPT !.set = TRUE, !.next = new.cfg]
                   /\ todo' = DOMAIN new.cfg
                   /\ pc' = "old_ex_loop"
                   /\ ret' = ret
    /\ UNCHANGED <<fs, req, res, seen, cur, sw, cycles, history>>
    /\ UNCHANGED <<appVars, offer>>

\* Lines 106-111: ioutil.WriteFile of the next entry, in place; a failed write
\* leaves the file cut short.
OldExWrite ==
    /\ pc = "old_ex_loop"
    /\ \E fname \in todo, now \in Times :
         /\ cur' = fname
         /\ todo' = todo \ {fname}
         /\ touched' = touched \cup {SecretPath(fname)}
         /\ \/ /\ fs' = FsPut(fs, SecretPath(fname), config.next[fname].Value, now)
               /\ UNCHANGED <<pc, ret>>
            \/ /\ fs' = FsPut(fs, SecretPath(fname), CutShort(config.next[fname].Value), now)
               /\ pc' = "ret"
               /\ ret' = Err("write")
    /\ UNCHANGED <<req, res, config, seen, sw, cycles,
                   fs0, hooks, lw, extractOk, rmRuns, accepted, applied, reapply, lost>>
    /\ UNCHANGED <<appVars, offer>>

\* Line 112: every entry is written.
OldExDone ==
    /\ pc = "old_ex_loop"
    /\ todo = {}
    /\ pc' = "ret"
    /\ ret' = Nil
    /\ extractOk' = TRUE
    /\ UNCHANGED <<fs, req, res, config, todo, seen, cur, sw, cycles,
                   fs0, hooks, touched, lw, rmRuns, accepted, applied, reapply, lost>>
    /\ UNCHANGED <<appVars, offer>>

NextOld ==
    \/ OldNewRequest \/ OldStat \/ OldDo
    \/ OldOn200 \/ OldOn304 \/ OldOnOtherStatus
    \/ OldSwOpen \/ OldSwCopy \/ OldSwRename
    \/ OldExtract \/ OldExWrite \/ OldExDone
    \/ EndCycle \/ Crash

SpecOld == Init /\ [][NextOld]_vars

(***************************************************************************)
(* Cycle after cycle against a server that has settled on one bundle: it   *)
(* answers 200 with it if it is newer than If-Modified-Since (or no such   *)
(* header came), else 304.  The scheduler starts cycles for ever; system   *)
(* calls may fail and the process may be killed in the early cycles only.  *)
(***************************************************************************)
\* The server got its bundle at MaxTime, after every Date it sent before.
Offers == {[set |-> TRUE, bundle |-> B, time |-> MaxTime] : B \in Bundles}

Answer(o, ims) ==
    IF ims = NoHeader \/ o.time > ParseRFC1123(ims).t
    THEN [status |-> 200, body |-> Marshal(o.bundle), date |-> FormatRFC1123(MaxTime)]
    ELSE [status |-> 304, body |-> <<>>, date |-> FormatRFC1123(MaxTime)]

\* checkin, lines 284-300, with the answer of that server.
RequestOffered ==
    /\ pc = "idle"
    /\ cycles' = IF cycles < MaxCycles THEN cycles + 1 ELSE cycles
    /\ req' = IfModifiedSince(fs)
    /\ res' = Answer(offer, IfModifiedSince(fs))
    /\ pc' = "resp"
    /\ fs0' = fs
    /\ hooks' = <<>>
    /\ touched' = {}
    /\ lw' = NoLw
    /\ extractOk' = FALSE
    /\ reapply' = FALSE
    /\ UNCHANGED <<fs, config, todo, seen, cur, sw, ret, rmRuns, accepted, applied, lost>>
    /\ UNCHANGED <<appVars, offer>>

\* A system call fails or the process is killed, in a cycle before the last one
\* that is counted.
EarlyFailure ==
    /\ cycles < MaxCycles
    /\ \/ On200ReadFails \/ ExStatFails \/ RmFails
       \/ SwOpenFails \/ SwWriteFails \/ SwRenameFails \/ ChtimesFails
       \/ Crash

NextConverge ==
    \/ RequestOffered
    \/ On200 \/ On304
    \/ ExStat \/ ExNext \/ ExHook \/ ExLoopDone
    \/ RmNext \/ RmHook \/ RmDone
    \/ SwOpen \/ SwWrite \/ SwRename \/ SwDefer
    \/ Persist \/ Chtimes
    \/ EndCycle
    \/ EarlyFailure

InitConverge == CycleInit /\ InCheckin /\ offer \in Offers

SpecConverge == InitConverge /\ [][NextConverge]_vars /\ WF_vars(NextConverge)

(***************************************************************************)
(* What the claims speak of                                                *)
(***************************************************************************)
\* The persisted encrypted bundle: whether it is there, its content, its time.
BundleFile(d) == Stat(d, EncryptedConfig)

\* The value entry n of prev decrypts to (checkin itself never decrypts prev).
PrevValue(n) == Decrypt(config.prev[n].Value).val

\* The hooks run for fname in this cycle.
RunsOf(fname) == {i \in 1 .. Len(hooks) : hooks[i].fname = fname}

\* How often an entry's hook has to run for one change: once, if it has a command.
Due(onChanged) == IF Len(onChanged) > 0 THEN 1 ELSE 0

\* File n holds a value only the fetched bundle gives it.
HoldsNewOnly(n) ==
    /\ n \in DOMAIN config.next
    /\ Exists(fs, SecretPath(n))
    /\ fs[SecretPath(n)].data = config.next[n].Value
    /\ ~(n \in DOMAIN config.prev /\ PrevValue(n) = config.next[n].Value)

\* File n holds a value (under a name) only the previous bundle gives it.
HoldsOldOnly(n) ==
    /\ n \in DOMAIN config.prev
    /\ Exists(fs, SecretPath(n))
    /\ fs[SecretPath(n)].data = PrevValue(n)
    /\ ~(n \in DOMAIN config.next /\ config.next[n].Value = PrevValue(n))

MixedVersions ==
    /\ config.set
    /\ \E n, m \in Names : HoldsNewOnly(n) /\ HoldsOldOnly(m)

\* When extract was entered, file n held the value next gives it.
UnchangedAtEntry(n) ==
    /\ n \in DOMAIN config.next
    /\ Exists(fs0, SecretPath(n))
    /\ fs0[SecretPath(n)].data = config.next[n].Value

\* extract has removed every name of prev that next lacks, and has run the hook
\* prev records for it exactly once in this call.
RemovedOnce ==
    \A n \in DOMAIN config.prev \ DOMAIN config.next :
        /\ ~Exists(fs, SecretPath(n))
        /\ Cardinality(RunsOf(n)) = Due(config.prev[n].OnChanged)
        /\ \A i \in RunsOf(n) : hooks[i].cmd = config.prev[n].OnChanged

C3_PersistOnlyAfterExtract ==
    /\ (pc # "idle" /\ ~extractOk) => BundleFile(fs) = BundleFile(fs0)
    /\ (pc # "idle" /\ lost.set) => req = lost.ims

\* A cycle follows one that got a 200, changed a secret file and then failed before
\* persisting: it has sent the old bundle's time again.
C3_Witness ==
    /\ pc = "resp"
    /\ lost.set
    /\ lost.ims # NoHeader
    /\ Exists(fs, SecretPath("a"))
    /\ fs[SecretPath("a")].data = <<2, 2>>
    /\ UnmarshallFile(fs, EncryptedConfig, TRUE).cfg = FirstBundleConfig

(***************************************************************************)
(* C4                                                                      *)
(***************************************************************************)
\* C4: whenever the persisted bundle exists, its modification time is the Date of
\* the response whose body it holds, if that Date parses (otherwise a local time).
C4_TimeIsServerDate ==
    (Exists(fs, EncryptedConfig) /\ accepted.set /\ ParseRFC1123(accepted.date).ok)
        => fs[EncryptedConfig].mtime = ParseRFC1123(accepted.date).t

(***************************************************************************)
(* C5                                                                      *)
(***************************************************************************)
\* C5, as claimed: when extract returns success every name of prev that next lacks
\* is removed and its hook from prev has run exactly once; and over a sequence of
\* cycles, one of which aborted after the removal and is retried, the hook of a
\* removed name still has run only once for that removal.
C5_RemovalHookOnceEver ==
    /\ (pc = "ex_ok" /\ ~config.prevNil) => RemovedOnce
    /\ \A n \in Names : rmRuns[n] <= 1

\* C5, amended: in every extract call that returns success, every name of prev
\* that next lacks is absent from the secrets directory and the hook prev records
\* for it (if it has a command) has run exactly once in that call.  (A retry after
\* a cycle that aborted behind the removal runs the hook of the absent file again.)
C5_RemovalHookOncePerCall ==
    (pc = "ex_ok" /\ ~config.prevNil) => RemovedOnce

\* extract returned success after removing "b", which was on disk, and running
\* the hook prev gave it.
C5_Witness ==
    /\ pc = "ex_ok"
    /\ "b" \in DOMAIN config.prev \ DOMAIN config.next
    /\ Exists(fs0, SecretPath("b"))
    /\ ~Exists(fs, SecretPath("b"))
    /\ \E i \in 1 .. Len(hooks) :
         /\ hooks[i].fname = "b"
         /\ hooks[i].cmd = <<"/bin/reload", "b">>
         /\ hooks[i].env = SecretPath("b")

(***************************************************************************)
(* C6                                                                      *)
(***************************************************************************)
\* C6: for every entry of next whose value is what its file already holds when
\* extract is entered, no system call of the cycle creates, writes, renames or
\* removes that file, and the entry's hook is not run.
C6_UnchangedUntouched ==
    config.set =>
        \A n \in Names :
            UnchangedAtEntry(n) =>
                /\ SecretPath(n) \notin touched
                /\ RunsOf(n) = {}

(***************************************************************************)
(* C7                                                                      *)
(***************************************************************************)
\* C7: when extract returns success, every entry of next is on disk with its
\* decrypted value, and the hook of every entry whose file was absent or different
\* at entry has run exactly once (if it has a command), with the file in place.
C7_AllMaterialized ==
    pc = "ex_ok" =>
        \A n \in DOMAIN config.next :
            /\ Exists(fs, SecretPath(n))
            /\ fs[SecretPath(n)].data = config.next[n].Value
            /\ ~UnchangedAtEntry(n) =>
                 /\ Cardinality(RunsOf(n)) = Due(config.next[n].OnChanged)
                 /\ \A i \in RunsOf(n) :
                      /\ hooks[i].cmd = config.next[n].OnChanged
                      /\ hooks[i].exists
                      /\ hooks[i].data = config.next[n].Value

(***************************************************************************)
(* C8                                                                      *)
(***************************************************************************)
\* C8: a cycle that applies again the body the previous cycle applied with success
\* creates, writes, renames and removes no file of the secrets directory and
\* runs no hook.
C8_ReapplyIsNoOp ==
    reapply =>
        /\ touched \cap SecretPaths = {}
        /\ hooks = <<>>

(***************************************************************************)
(* C9                                                                      *)
(***************************************************************************)
\* C9: when the server answers 304 or 204, checkin returns NotModifiedError, every
\* file (the secrets and the persisted bundle with its time) is as it was when the
\* cycle started, and no hook has run.
C9_NotModified ==
    (pc = "ret" /\ res.status \in {204, 304}) =>
        /\ ret = NotModifiedError
        /\ fs = fs0
        /\ hooks = <<>>
        /\ touched = {}

\* A 204 was answered to a device that holds a bundle and secrets.
C9_Witness ==
    /\ pc = "ret"
    /\ res.status = 204
    /\ ret = NotModifiedError
    /\ Exists(fs, EncryptedConfig)
    /\ Exists(fs, SecretPath("a"))

(***************************************************************************)
(* C10                                                                     *)
(***************************************************************************)
\* C10: for a status other than 200, 204 and 304, and for a request that failed
\* in transport (no response), checkin returns an error that is not
\* NotModifiedError (nor success), for a status one that carries the status and
\* the body text; every file is as it was and no hook has run.
C10_OtherStatusIsError ==
    (pc = "ret" /\ res.status \notin {200, 204, 304}) =>
        /\ ret.kind \notin {"nil", "NotModified"}
        /\ IF res = NoResponse THEN ret.kind = "get"
           ELSE ret.kind = "http" /\ ret.status = res.status /\ ret.msg = res.body
        /\ fs = fs0
        /\ hooks = <<>>
        /\ touched = {}

\* A 500 with its text was answered to a device that holds a bundle and secrets.
C10_Witness ==
    /\ pc = "ret"
    /\ res.status = 500
    /\ ret.kind = "http"
    /\ ret.status = 500
    /\ ret.msg = ErrorText
    /\ Exists(fs, EncryptedConfig)
    /\ Exists(fs, SecretPath("a"))

(***************************************************************************)
(* C11                                                                     *)
(***************************************************************************)
\* An operation of App has ended: it returned, or the process ended inside it.
OperationEnded == apc \in {"ready", "exited", "panicked"}

\* C11: whenever an operation of App has ended, on a return or on any failure,
\* also one inside the constructor behind crypto11.Configure, every hardware
\* session opened in it has been closed: none is open between operations.
C11_ClosedWhenOperationEnds == OperationEnded => open = 0

\* CheckIn ended in createClientPkcs11 by log.Fatal behind crypto11.Configure, with
\* the session it opened never closed.
C11_Witness ==
    /\ op = "CheckIn"
    /\ apc = "exited"
    /\ reached = "createClientPkcs11"
    /\ lastId.set
    /\ open = 1

(***************************************************************************)
(* C12                                                                     *)
(***************************************************************************)
\* callInitFunctions of the running CheckIn or CallInitFunctions has returned.
RangeDone ==
    /\ op \in {"CheckIn", "CallInitFunctions"}
    /\ apc \in {"checkin", "closing"}

\* C12: in every cycle each init function registered when the cycle began is
\* invoked exactly once and no other is invoked; one that has returned nil is out
\* of the registry and is never invoked again; one that failed stays registered
\* (so the next cycle invokes it); and CheckIn goes on to checkin whatever the
\* init functions returned.
C12_InitFunctionsOncePerCycle ==
    /\ \A h \in InitNames : calls[h] <= 1 /\ (calls[h] = 1 => h \in reg0)
    /\ RangeDone => /\ \A h \in reg0 : calls[h] = 1
                    /\ initFunctions = reg0 \ succeeded
    /\ succeeded \cap initFunctions = {}
    /\ ~again
    /\ (op = "CheckIn" /\ apc = "closing") => fetched

\* A later CheckIn: "h2" returned nil in an earlier cycle in which "h1" failed;
\* now "h1" alone was invoked, failed again and stays registered, and checkin ran.
C12_Witness ==
    /\ op = "CheckIn"
    /\ apc = "closing"
    /\ fetched
    /\ reg0 = {"h1"}
    /\ calls = [NoCalls EXCEPT !["h1"] = 1]
    /\ succeeded = {"h2"}
    /\ initFunctions = {"h1"}

(***************************************************************************)
(* C14                                                                     *)
(***************************************************************************)
\* The digit values of a digit string with its leading zero digits stripped.
RECURSIVE Stripped(_)
Stripped(id) ==
    IF id = <<>> THEN <<>>
    ELSE IF Head(id) = 48 THEN Stripped(Tail(id))
    ELSE [i \in 1 .. Len(id) |-> id[i] - 48]

\* C14: idToBytes returns, for every digit string, its digit values with the
\* leading zero digits stripped ("01" gives {1}, "10" gives {1,0}, "00" gives the
\* empty sequence), and it does not fail.
C14_IdToBytesStripsZeros ==
    lastId.set => /\ ~lastId.out.panic
                  /\ lastId.out.val = Stripped(lastId.id)

\* idToBytes was given "00" and panicked, with the hardware session open.
C14_Witness ==
    /\ lastId.set
    /\ lastId.id = <<48, 48>>
    /\ lastId.out.panic
    /\ apc = "panicked"
    /\ open = 1

(***************************************************************************)
(* C15                                                                     *)
(***************************************************************************)
\* C15: createClient reaches a constructor only if tls.ca_source is "file",
\* tls.pkey_source is "file" or "pkcs11" and tls.cert_source equals
\* tls.pkey_source; otherwise the process has ended before.
C15_ConstructorOnlyForValidSources ==
    reached # "" =>
        /\ sota.ca_source = "file"
        /\ sota.pkey_source \in {"file", "pkcs11"}
        /\ sota.cert_source = sota.pkey_source

\* createClientPkcs11 has opened a session for a source that is not recognized.
C15_Witness ==
    /\ reached = "createClientPkcs11"
    /\ sota.pkey_source = "tpm"
    /\ open = 1

(***************************************************************************)
(* C13                                                                     *)
(***************************************************************************)
\* C13: when the body of a 200 response does not decode (its structure is
\* malformed, or an entry does not decrypt), checkin returns that error and every
\* file - the secrets, the persisted bundle and its time - is as it was when the
\* cycle started; nothing was written or removed and no hook has run.  (The body
\* is the one ioutil.ReadAll returned: a failed read ends the cycle before.)
C13_DecodeFailureAppliesNothing ==
    (/\ pc = "ret"
     /\ res.status = 200
     /\ ret # Err("read")
     /\ UnmarshallBuffer(res.body, TRUE).err # "") =>
        /\ ret = Err(UnmarshallBuffer(res.body, TRUE).err)
        /\ fs = fs0
        /\ hooks = <<>>
        /\ touched = {}

\* A body with an entry that does not decrypt was answered to a device that holds
\* a bundle and secrets.
C13_Witness ==
    /\ pc = "ret"
    /\ res.status = 200
    /\ WellFormed(res.body)
    /\ ret = Err("decrypt")
    /\ Exists(fs, EncryptedConfig)
    /\ Exists(fs, SecretPath("b"))

(***************************************************************************)
(* C16                                                                     *)
(***************************************************************************)
\* C16: a request whose construction failed is never used: the cycle does not
\* get to add a header to it or to hand it to the client, it returns an error.
C16_FailedRequestNeverUsed ==
    req = NilRequest => pc \notin {"old_do", "panicked"}

\* CheckIn of src/internal/app.go added If-Modified-Since to a nil request.
C16_Witness ==
    /\ req = NilRequest
    /\ pc = "panicked"
    /\ Exists(fs, EncryptedConfig)
    /\ res = NoResponse

(***************************************************************************)
(* C17                                                                     *)
(***************************************************************************)
\* C17: in the CheckIn of src/internal/app.go the persisted bundle is as it was
\* when the cycle started for as long as Extract has not returned success.
C17_OldPersistsOnlyAfterExtract ==
    (pc # "idle" /\ ~extractOk) => BundleFile(fs) = BundleFile(fs0)

\* Extract failed on the secrets directory after a 200, and the bundle of the
\* device has already been replaced by the body, with the time of the write: the
\* next cycle sends that time.
C17_Witness ==
    /\ pc = "ret"
    /\ ret = Err("stat")
    /\ res.status = 200
    /\ Exists(fs0, EncryptedConfig)
    /\ fs[EncryptedConfig].data = res.body
    /\ fs[EncryptedConfig].data # fs0[EncryptedConfig].data
    /\ fs[SecretPath("b")] = fs0[SecretPath("b")]
    /\ IfModifiedSince(fs) # IfModifiedSince(fs0)

(***************************************************************************)
(* C18                                                                     *)
(***************************************************************************)
\* C18: within an extract call the removals begin only when every entry of next
\* has had its write/compare step, and only with a prev; no file that was there
\* when the call began and whose name is a key of next is ever missing during
\* the call; and without a prev no hook runs but those of entries of next.
C18_WritesBeforeRemovals ==
    /\ pc \in {"rm_loop", "rm_hook"} =>
           /\ seen = DOMAIN config.next
           /\ ~config.prevNil
    /\ config.set =>
           \A n \in DOMAIN config.next :
               Exists(fs0, SecretPath(n)) => Exists(fs, SecretPath(n))
    /\ (config.set /\ config.prevNil) =>
           \A i \in 1 .. Len(hooks) : hooks[i].fname \in DOMAIN config.next

\* The write of entry "a" failed and its deferred os.Remove deleted the file of
\* entry "a.tmp", which was there when the call began.
C18_Witness ==
    /\ pc = "ret"
    /\ ret = Err("write")
    /\ cur = "a"
    /\ "a.tmp" \in DOMAIN config.next
    /\ Exists(fs0, SecretPath("a.tmp"))
    /\ ~Exists(fs, SecretPath("a.tmp"))

(***************************************************************************)
(* C19                                                                     *)
(***************************************************************************)
\* The entry names that have a file in the secrets directory.
SecretFiles(d) == {n \in Names : Exists(d, SecretPath(n))}

\* C19: after every cycle that returns success on a 200, the files of the secrets
\* directory are exactly the entries of the persisted bundle.
C19_FilesAreThePersistedBundle ==
    (pc = "ret" /\ ret = Nil /\ res.status = 200) =>
        SecretFiles(fs) = DOMAIN UnmarshallFile(fs, EncryptedConfig, FALSE).cfg

\* A cycle for a bundle with "a" alone returned success on a device without a
\* persisted bundle, where an earlier cycle that never persisted had written "b":
\* "b" is still there.
C19_Witness ==
    /\ pc = "ret"
    /\ ret = Nil
    /\ res.status = 200
    /\ config.prevNil
    /\ DOMAIN UnmarshallFile(fs, EncryptedConfig, FALSE).cfg = {"a"}
    /\ Exists(fs, SecretPath("b"))
    /\ fs[SecretPath("b")].data = <<1, 1>>
    /\ fs[SecretPath("a")].data = <<2, 2>>

(***************************************************************************)
(* C20                                                                     *)
(***************************************************************************)
\* Every entry of the server's bundle is a file with its decrypted value, and the
\* persisted bundle is the server's document.
Converged ==
    /\ \A n \in DOMAIN offer.bundle :
         /\ Exists(fs, SecretPath(n))
         /\ fs[SecretPath(n)].data = offer.bundle[n]
    /\ Exists(fs, EncryptedConfig)
    /\ fs[EncryptedConfig].data = Marshal(offer.bundle)

\* C20: against a server that keeps offering the same bundle, with system calls
\* that succeed from some cycle on, a cycle eventually returns with every entry of
\* the bundle materialized and the bundle persisted; the agent is not answered
\* 304 for ever with secrets that do not reflect the bundle.
C20_Converges == <>(pc = "ret" /\ Converged)

\* The agent is answered 304 although the file of an entry of the persisted,
\* offered bundle is missing.
C20_Witness ==
    /\ pc = "ret"
    /\ res.status = 304
    /\ ret = NotModifiedError
    /\ fs[EncryptedConfig].data = Marshal(offer.bundle)
    /\ "a.tmp" \in DOMAIN offer.bundle
    /\ ~Exists(fs, SecretPath("a.tmp"))

====
